---- MODULE Spec2Model ----
(***************************************************************************)
(* Generic Stack<T> of examples/12_project_ideas.rs: a Vec<T> behind       *)
(* new / push / pop / peek / is_empty / size / print_all, driven by a      *)
(* caller that builds values, moves them in, takes them back, and drains   *)
(* the stack with `while let Some(item) = stack.pop()`.                    *)
(***************************************************************************)
EXTENDS Integers, Sequences, FiniteSets, TLC

\* Bounds of the exploration.
MaxElems == 3       \* values of T the caller ever constructs
MaxOps == 7         \* push/pop calls recorded in one run

\* Payloads of T the caller uses (the integers main pushes).
Values == {1, 2, 3}

\* A value of T: its payload and the identity of the instance (what moves).
Elems == [id : 1..MaxElems, val : Values]

\* Option<T> / Option<&T>
None == [tag |-> "None"]
Some(e) == [tag |-> "Some", val |-> e]

\* Results of the calls that return no Option.
Unit == [tag |-> "unit"]
Usize(n) == [tag |-> "usize", val |-> n]
Bool(b) == [tag |-> "bool", val |-> b]

VARIABLES
    stack,      \* the Stack<T> value: [items |-> Vec<T>], bottom first
    held,       \* values of T the caller owns
    made,       \* number of values of T constructed so far
    op,         \* the last call made on the stack
    ret,        \* what that call returned
    out,        \* what that call wrote to stdout
    trace,      \* history of the push and pop calls, with arguments and results
    pc,         \* "call": straight-line caller code; "drain": inside the while-let loop
    drainN,     \* size() when the current/last drain loop was entered
    drainPops   \* present results seen by the current/last drain loop

vars == <<stack, held, made, op, ret, out, trace, pc, drainN, drainPops>>

----------------------------------------------------------------------------
\* Vec<T> primitives used by the methods.

Vec_new == <<>>
Vec_push(v, item) == Append(v, item)
Vec_len(v) == Len(v)
Vec_is_empty(v) == Len(v) = 0
Vec_last(v) == IF Len(v) = 0 THEN None ELSE Some(v[Len(v)])
\* Vec::pop: the vector left behind and the Option returned.
Vec_pop(v) ==
    IF Len(v) = 0
    THEN [vec |-> v, ret |-> None]
    ELSE [vec |-> SubSeq(v, 1, Len(v) - 1), ret |-> Some(v[Len(v)])]

\* {:?} of one i32-like payload and of a Vec of them: "[1, 2, 3]".
RECURSIVE fmt_join(_, _)
fmt_join(v, i) ==
    IF i > Len(v) THEN ""
    ELSE (IF i > 1 THEN ", " ELSE "") \o ToString(v[i].val) \o fmt_join(v, i + 1)
fmt_debug(v) == "[" \o fmt_join(v, 1) \o "]"

----------------------------------------------------------------------------
\* Faulty variants of the methods, used to show that each property below
\* depends on the method it is about.

\* pop taking the bottom element: self.items.remove(0)
pop_front(self) ==
    IF Len(self.items) = 0
    THEN [self |-> self, ret |-> None]
    ELSE [self |-> [items |-> Tail(self.items)], ret |-> Some(Head(self.items))]

\* push inserting at the bottom: self.items.insert(0, item)
push_front(self, item) ==
    [self |-> [items |-> <<item>> \o self.items], ret |-> Unit]

\* size reporting the allocation instead of the length: self.items.capacity()
size_capacity(self) ==
    [self |-> self,
     ret |-> IF Len(self.items) = 0 THEN 0 ELSE 4 * ((Len(self.items) + 3) \div 4)]

\* pop substituting a default on an empty stack: Some(self.items.pop().unwrap_or_default())
pop_sentinel(self) ==
    IF Len(self.items) = 0
    THEN [self |-> self, ret |-> Some([id |-> 0, val |-> 0])]
    ELSE [self |-> [items |-> SubSeq(self.items, 1, Len(self.items) - 1)],
          ret |-> Some(self.items[Len(self.items)])]

\* peek written with pop: it removes what it shows
peek_take(self) ==
    [self |-> [items |-> Vec_pop(self.items).vec], ret |-> Vec_pop(self.items).ret]

\* is_empty with the test inverted: !self.items.is_empty()
is_empty_inverted(self) == [self |-> self, ret |-> ~Vec_is_empty(self.items)]

\* peek looking at the wrong end: self.items.first()
peek_first(self) ==
    [self |-> self,
     ret |-> IF Len(self.items) = 0 THEN None ELSE Some(self.items[1])]

\* pop handing out a copy and keeping the element: self.items.last().cloned()
pop_clone(self) == [self |-> self, ret |-> Vec_last(self.items)]

\* print_all walking the vector from the top: self.items.iter().rev()
print_all_rev(self) ==
    [self |-> self, ret |-> Unit,
     out |-> "Stack (bottom to top): "
             \o fmt_debug([i \in 1..Len(self.items) |->
                              self.items[Len(self.items) + 1 - i]])]

\* pop with an off-by-one emptiness test: if self.items.len() > 1 { .. } else { None }
pop_keep_one(self) ==
    IF Len(self.items) <= 1
    THEN [self |-> self, ret |-> None]
    ELSE [self |-> [items |-> SubSeq(self.items, 1, Len(self.items) - 1)],
          ret |-> Some(self.items[Len(self.items)])]

----------------------------------------------------------------------------
\* impl<T> Stack<T>.  Every method yields the receiver as the call leaves it
\* (self) and the value it returns (ret); print_all also yields the line it
\* writes (out).

new == [items |-> Vec_new]

push(self, item) ==
    [self |-> [items |-> Vec_push(self.items, item)], ret |-> Unit]

pop(self) ==
    LET r == Vec_pop(self.items)
    IN  [self |-> [items |-> r.vec], ret |-> r.ret]

peek(self) == [self |-> self, ret |-> Vec_last(self.items)]

is_empty(self) == [self |-> self, ret |-> Vec_is_empty(self.items)]

size(self) == [self |-> self, ret |-> Vec_len(self.items)]

\* impl<T: Debug> Stack<T>
print_all(self) ==
    [self |-> self, ret |-> Unit,
     out |-> "Stack (bottom to top): " \o fmt_debug(self.items)]

----------------------------------------------------------------------------
Init ==
    /\ stack = new
    /\ held = {}
    /\ made = 0
    /\ op = "new"
    /\ ret = Unit
    /\ out = ""
    /\ trace = <<>>
    /\ pc = "call"
    /\ drainN = 0
    /\ drainPops = 0

\* The effect of one stack.push(item): item is moved into the stack.
PushCall(item) ==
    LET r == push(stack, item)
    IN  /\ stack' = r.self
        /\ ret' = r.ret
        /\ held' = held \ {item}
        /\ op' = "push"
        /\ out' = ""
        /\ trace' = Append(trace, [op |-> "push", item |-> item])

\* stack.push(<expr>): the argument is a value built in place (a literal,
\* String::from(..), Point {..}) and moved straight into the stack.
PushNew(v) ==
    /\ pc = "call"
    /\ made < MaxElems
    /\ Len(trace) < MaxOps
    /\ made' = made + 1
    /\ PushCall([id |-> made + 1, val |-> v])
    /\ UNCHANGED <<pc, drainN, drainPops>>

\* stack.push(item) with a value the caller holds (one it took back by pop).
PushHeld(item) ==
    /\ pc = "call"
    /\ item \in held
    /\ Len(trace) < MaxOps
    /\ PushCall(item)
    /\ UNCHANGED <<made, pc, drainN, drainPops>>

\* The effect of one stack.pop(): a present result is moved to the caller.
PopCall ==
    LET r == pop(stack)
    IN  /\ stack' = r.self
        /\ ret' = r.ret
        /\ held' = IF r.ret.tag = "Some" THEN held \cup {r.ret.val} ELSE held
        /\ op' = "pop"
        /\ out' = ""
        /\ trace' = Append(trace, [op |-> "pop", ret |-> r.ret])

Pop ==
    /\ pc = "call"
    /\ Len(trace) < MaxOps
    /\ PopCall
    /\ UNCHANGED <<made, pc, drainN, drainPops>>

Peek ==
    LET r == peek(stack)
    IN  /\ pc = "call"
        /\ stack' = r.self
        /\ ret' = r.ret
        /\ op' = "peek"
        /\ out' = ""
        /\ UNCHANGED <<held, made, trace, pc, drainN, drainPops>>

IsEmpty ==
    LET r == is_empty(stack)
    IN  /\ pc = "call"
        /\ stack' = r.self
        /\ ret' = Bool(r.ret)
        /\ op' = "is_empty"
        /\ out' = ""
        /\ UNCHANGED <<held, made, trace, pc, drainN, drainPops>>

Size ==
    LET r == size(stack)
    IN  /\ pc = "call"
        /\ stack' = r.self
        /\ ret' = Usize(r.ret)
        /\ op' = "size"
        /\ out' = ""
        /\ UNCHANGED <<held, made, trace, pc, drainN, drainPops>>

PrintAll ==
    LET r == print_all(stack)
    IN  /\ pc = "call"
        /\ stack' = r.self
        /\ ret' = r.ret
        /\ op' = "print_all"
        /\ out' = r.out
        /\ UNCHANGED <<held, made, trace, pc, drainN, drainPops>>

\* Control reaches `while let Some(item) = int_stack.pop()`.
DrainEnter ==
    /\ pc = "call"
    /\ Len(trace) + Len(stack.items) + 1 <= MaxOps
    /\ pc' = "drain"
    /\ drainN' = Len(stack.items)
    /\ drainPops' = 0
    /\ UNCHANGED <<stack, held, made, op, ret, out, trace>>

\* One evaluation of the loop head: pop, then the body on Some, or leave on None.
DrainPop ==
    /\ pc = "drain"
    /\ Len(trace) < MaxOps
    /\ PopCall
    /\ IF ret'.tag = "Some"
       THEN /\ drainPops' = drainPops + 1
            /\ pc' = "drain"
       ELSE /\ drainPops' = drainPops
            /\ pc' = "call"
    /\ UNCHANGED <<made, drainN>>

Next ==
    \/ \E v \in Values : PushNew(v)
    \/ \E item \in held : PushHeld(item)
    \/ Pop
    \/ Peek
    \/ IsEmpty
    \/ Size
    \/ PrintAll
    \/ DrainEnter
    \/ DrainPop

Spec == Init /\ [][Next]_vars

\* The loop head is re-evaluated as long as the loop has not been left.
FairSpec == Spec /\ WF_vars(DrainPop)

----------------------------------------------------------------------------
\* What the history of push and pop calls alone says about the contents.

IsPush(t, i) == t[i].op = "push"
IsPresentPop(t, i) == t[i].op = "pop" /\ t[i].ret.tag = "Some"
IsAbsentPop(t, i) == t[i].op = "pop" /\ t[i].ret.tag = "None"

NumPush(t) == Cardinality({i \in DOMAIN t : IsPush(t, i)})
NumPresentPop(t) == Cardinality({i \in DOMAIN t : IsPresentPop(t, i)})

Max(S) == IF S = {} THEN 0 ELSE CHOOSE m \in S : \A x \in S : x <= m

\* Position in t of the last push of e / of the last pop that returned e (0: never).
LastPush(t, e) == Max({i \in DOMAIN t : IsPush(t, i) /\ t[i].item = e})
LastPop(t, e) == Max({i \in DOMAIN t : IsPresentPop(t, i) /\ t[i].ret.val = e})

Pushed(t) == {t[i].item : i \in {j \in DOMAIN t : IsPush(t, j)}}

\* Pushed and not popped since.
Live(t) == {e \in Pushed(t) : LastPush(t, e) > LastPop(t, e)}

\* The live elements, oldest push first.
RECURSIVE LiveSeqFrom(_, _)
LiveSeqFrom(t, i) ==
    IF i > Len(t) THEN <<>>
    ELSE IF /\ IsPush(t, i)
            /\ t[i].item \in Live(t)
            /\ LastPush(t, t[i].item) = i
         THEN <<t[i].item>> \o LiveSeqFrom(t, i + 1)
         ELSE LiveSeqFrom(t, i + 1)
LiveSeq(t) == LiveSeqFrom(t, 1)

\* The step is a call of pop / of push(item) / of a method that takes &self.
PopStep == trace' = Append(trace, [op |-> "pop", ret |-> ret'])
PushStep(item) == trace' = Append(trace, [op |-> "push", item |-> item])
ReadStep(name) == op' = name /\ pc = "call" /\ pc' = "call" /\ trace' = trace

\* The history is n pushes followed by pops only.
PushesThenPops(n) ==
    /\ n <= Len(trace)
    /\ \A i \in 1..n : IsPush(trace, i)
    /\ \A i \in (n + 1)..Len(trace) : trace[i].op = "pop"

----------------------------------------------------------------------------
\* C1 (round trip): when the calls since new() are pushes of v1..vn followed
\* by pops, the k-th pop returns Some(v(n+1-k)) for k <= n, and every pop after
\* the n-th returns None.
C1_RoundTrip ==
    \A n \in 0..Len(trace) :
        PushesThenPops(n) =>
            \A k \in 1..(Len(trace) - n) :
                trace[n + k].ret =
                    IF k <= n THEN Some(trace[n + 1 - k].item) ELSE None

\* push(1); push(2); push(3); then four pops have been made.
C1_Witness ==
    /\ Len(trace) = 7
    /\ PushesThenPops(3)
    /\ \A i \in 1..3 : trace[i].item.val = i
    /\ ret = None

\* C2 (LIFO): a pop on a non-empty stack returns the live element pushed last,
\* removes exactly that element, and leaves the others where they were.
C2_LIFO ==
    [][(PopStep /\ size(stack).ret > 0) =>
        \E e \in Live(trace) :
            /\ \A f \in Live(trace) : LastPush(trace, f) <= LastPush(trace, e)
            /\ ret' = Some(e)
            /\ Live(trace') = Live(trace) \ {e}
            /\ Len(stack'.items) = Len(stack.items) - 1
            /\ \A i \in 1..Len(stack'.items) : stack'.items[i] = stack.items[i]
            /\ \A i \in 1..Len(stack'.items) : stack'.items[i] # e
      ]_vars

\* A pop has just taken the top of a stack built by push, pop, push, push with
\* reads in between: one older element is left.
C2_Witness ==
    /\ op = "pop"
    /\ ret.tag = "Some"
    /\ Len(trace) >= 5
    /\ NumPresentPop(trace) = 2
    /\ Len(stack.items) = 1
    /\ ret.val.id > stack.items[1].id

\* C3 (size): size() is the number of push calls minus the number of pops that
\* returned an element, whatever else was called; it is 0 after new() and
\* never negative.
C3_SizeInvariant ==
    /\ size(stack).ret = NumPush(trace) - NumPresentPop(trace)
    /\ size(stack).ret >= 0
    /\ (trace = <<>> => size(stack).ret = 0)
    /\ (op = "size" => ret = Usize(NumPush(trace) - NumPresentPop(trace)))

\* size() was called after pushes, a present pop and an absent pop.
C3_Witness ==
    /\ op = "size"
    /\ ret = Usize(2)
    /\ NumPush(trace) = 3
    /\ \E i \in DOMAIN trace : IsAbsentPop(trace, i)

\* C4 (empty pop): a pop on a stack of size 0 returns None and changes
\* nothing: the contents, what the caller holds, size() = 0 and is_empty().
C4_EmptyPop ==
    [][(PopStep /\ size(stack).ret = 0) =>
        /\ ret' = None
        /\ stack' = stack
        /\ held' = held
        /\ size(stack').ret = 0
        /\ is_empty(stack').ret
      ]_vars

\* Two pops in a row have returned None, on a stack that was used and drained.
C4_Witness ==
    /\ Len(trace) >= 4
    /\ IsPush(trace, 1)
    /\ IsAbsentPop(trace, Len(trace))
    /\ IsAbsentPop(trace, Len(trace) - 1)
    /\ op = "pop"

\* C5 (peek frame): a peek leaves the contents, their order, size() and
\* is_empty() as they were, so that the next pop returns what it would have
\* returned; a peek that follows a peek returns the same result.
C5_PeekFrame ==
    [][ReadStep("peek") =>
        /\ stack' = stack
        /\ held' = held
        /\ size(stack').ret = size(stack).ret
        /\ is_empty(stack').ret = is_empty(stack).ret
        /\ pop(stack').ret = pop(stack).ret
        /\ (op = "peek" => ret' = ret)
      ]_vars

\* peek has returned the top of a stack of two elements.
C5_Witness ==
    /\ op = "peek"
    /\ ret.tag = "Some"
    /\ Len(stack.items) = 2
    /\ ret.val = stack.items[2]

\* C6 (is_empty): is_empty() is true exactly when size() is 0, in every state
\* and in what an is_empty() call has just returned.
C6_IsEmptyConsistent ==
    /\ is_empty(stack).ret <=> (size(stack).ret = 0)
    /\ (op = "is_empty" => (ret.val <=> (size(stack).ret = 0)))

\* is_empty() has returned true on a stack that held elements before.
C6_Witness ==
    /\ op = "is_empty"
    /\ ret = Bool(TRUE)
    /\ NumPresentPop(trace) >= 2

\* C7 (peek result): peek() is None exactly on the empty stack; otherwise it is
\* the live element pushed last, which is what pop() returns next; right after
\* push(item) it is item.
C7_PeekResult ==
    LET p == peek(stack).ret
    IN  /\ (p = None) <=> is_empty(stack).ret
        /\ (~is_empty(stack).ret =>
                /\ p = pop(stack).ret
                /\ p.val \in Live(trace)
                /\ \A f \in Live(trace) :
                       LastPush(trace, f) <= LastPush(trace, p.val))
        /\ (op = "push" => p = Some(trace[Len(trace)].item))
        /\ (op = "peek" => ret = p)

\* peek() has returned a re-pushed element that sits above a newer-made one.
C7_Witness ==
    /\ op = "peek"
    /\ ret.tag = "Some"
    /\ Len(stack.items) = 2
    /\ ret.val.id < stack.items[1].id

\* Number of owners of the value with identity id: slots of the stack that
\* hold it, plus the caller if it holds it.
Owners(id) ==
    Cardinality({i \in DOMAIN stack.items : stack.items[i].id = id})
        + Cardinality({e \in held : e.id = id})

\* C8 (single ownership): every value ever built has exactly one owner, the
\* stack or the caller; after push(item) the stack owns item, after a present
\* pop the caller owns the result, and after peek the stack still owns what
\* peek showed.
C8_SingleOwner ==
    /\ \A id \in 1..made : Owners(id) = 1
    /\ \A i \in DOMAIN stack.items : stack.items[i].id \in 1..made
    /\ \A e \in held : e.id \in 1..made
    /\ (op = "push" =>
            /\ stack.items[Len(stack.items)] = trace[Len(trace)].item
            /\ trace[Len(trace)].item \notin held)
    /\ ((op = "pop" /\ ret.tag = "Some") =>
            /\ ret.val \in held
            /\ \A i \in DOMAIN stack.items : stack.items[i] # ret.val)
    /\ ((op = "peek" /\ ret.tag = "Some") =>
            /\ ret.val \notin held
            /\ stack.items[Len(stack.items)] = ret.val)

\* The caller has taken one value back and pushed it again under a newer one's
\* place, while holding another popped value.
C8_Witness ==
    /\ op = "push"
    /\ made = 3
    /\ Cardinality(held) = 1
    /\ Len(stack.items) = 2
    /\ LastPop(trace, stack.items[2]) > 0

\* C9 (dump): print_all writes the contained elements oldest push first and
\* leaves the contents, their order, size() and is_empty() as they were.
C9_PrintAll ==
    [][ReadStep("print_all") =>
        /\ out' = "Stack (bottom to top): " \o fmt_debug(LiveSeq(trace))
        /\ stack' = stack
        /\ held' = held
        /\ size(stack').ret = size(stack).ret
        /\ is_empty(stack').ret = is_empty(stack).ret
      ]_vars

\* The line main prints after push(1); push(2); push(3).
C9_Witness ==
    /\ op = "print_all"
    /\ out = "Stack (bottom to top): [1, 2, 3]"
    /\ Len(stack.items) = 3

\* C10 (drain loop): a `while let Some(item) = stack.pop()` loop entered with n
\* elements is left, and it is left by an absent pop that follows exactly n
\* present pops, with is_empty() true and size() 0.
C10_DrainTerminates ==
    /\ [](pc = "drain" => drainPops + size(stack).ret = drainN)
    /\ [][(pc = "drain" /\ pc' = "call") =>
            /\ drainPops = drainN
            /\ ret' = None
            /\ is_empty(stack').ret
            /\ size(stack').ret = 0
            /\ Len(trace') >= drainN + 1
            /\ IsAbsentPop(trace', Len(trace'))
            /\ \A k \in 1..drainN : IsPresentPop(trace', Len(trace') - k)
          ]_vars
    /\ ((pc = "drain") ~> (pc = "call"))

\* The loop of main has run to its end on the stack holding 1, 2, 3.
C10_Witness ==
    /\ pc = "call"
    /\ op = "pop"
    /\ ret = None
    /\ drainN = 3
    /\ drainPops = 3
    /\ Len(trace) = 7
====
